---- MODULE Spec2Model ----
(***************************************************************************)
(* Expiring-file lifecycle of the file-sharing backend: the upload, info,  *)
(* download and delete routes (routes/files.js), the File model            *)
(* (models/File.js), the upload middleware (middleware/upload.js) and the  *)
(* CleanupService (utils/cleanup.js).                                      *)
(*                                                                         *)
(* A handler is cut into steps at its awaits: everything a handler does    *)
(* between two awaits is one action.  Time is in milliseconds, as Date is. *)
(***************************************************************************)
EXTENDS Integers, Sequences, FiniteSets, TLC

\* ---------------------------------------------------------------- bounds
MaxUploads == 2      \* upload requests that write a blob (multer filename / uuid supply)
MaxDownloads == 2    \* schema default of maxDownloads (100 in models/File.js), scaled down
MaxReqs == 2         \* request slots that may be in flight together
MaxPasses == 2       \* sweep passes that may be in flight together

\* ------------------------------------------------------------- constants
MinuteMs == 60 * 1000
HourMs == 60 * 60 * 1000
DefaultExpiryHours == 24
MinExpiryHours == 1
MaxExpiryHours == 168
UploadDir == "uploads"

Users == {"ownerA", "ownerB"}
NoUser == "anonymous"            \* req.user undefined / createdBy null
Reqs == 1..MaxReqs
Passes == 1..MaxPasses
Ids == 1..MaxUploads
NoFile == [absent |-> TRUE]      \* findOne resolved with null
NoTimer == 0                     \* intervalId === null

\* the clock advances by one hour or by 61 minutes, up to the horizon
TickSteps == {HourMs, 61 * MinuteMs}
Horizon == 61 * MinuteMs
\* req.body.expiryHours: <<>> when the field is omitted, <<h>> when given
ExpiryHoursInputs == {<<>>, <<0>>, <<1>>, <<168>>, <<169>>}

VARIABLES
    now,      \* the clock (new Date(), Date.now(), moment())
    files,    \* the File collection: id -> document, or NoFile
    disk,     \* the paths present on disk
    stats,    \* User.uploadStats of each user
    uploads,  \* uploads that reached the handler (supply of fresh filenames and ids)
    req,      \* the request slots: handler position, local document, last response
    svc,      \* the CleanupService singleton: isRunning, intervalId
    timers,   \* the interval timers armed in the event loop
    pass,     \* the cleanupExpiredFiles invocations
    rec,      \* the cleanupOrphanedFiles invocation
    log       \* the console line start() / stop() has just written

vars == <<now, files, disk, stats, uploads, req, svc, timers, pass, rec, log>>

\* ------------------------------------------------------------ responses
NoResp == [status |-> 0, error |-> "", message |-> ""]
Resp(s, e, m) == [status |-> s, error |-> e, message |-> m]

IdleReq == [op |-> "none", pc |-> "idle", id |-> 0, user |-> NoUser,
            file |-> NoFile, resp |-> NoResp]
NoSnapshot == [files |-> <<>>, disk |-> {}]
IdlePass == [pc |-> "idle", cutoff |-> 0, expiredFiles |-> {}, todo |-> {},
             current |-> 0, deletedCount |-> 0, errorCount |-> 0,
             before |-> NoSnapshot]
IdleRec == [pc |-> "idle", filesOnDisk |-> {}, orphanedCount |-> 0,
            errorCount |-> 0, outcome |-> "none"]

\* ------------------------------------------------------ paths (path.*)
join(dir, name) == <<dir, name>>
basename(p) == p[Len(p)]
existsSync(p) == p \in disk
readdirSync(dir) == {basename(p) : p \in {q \in disk : q[1] = dir}}

\* ----------------------------------------------------- File model logic
\* faulty variant: expired from the expiry instant on
isFileExpiredAtExpiry(file, t) == t >= file.expiryTime
\* faulty variant: expired only during the hour after the expiry
isFileExpiredForAnHour(file, t) == t > file.expiryTime /\ t <= file.expiryTime + HourMs
isFileExpired(file, t) == t > file.expiryTime
\* faulty variant: one download more than the limit
isDownloadLimitReachedLate(file) == file.downloadCount > file.maxDownloads
isDownloadLimitReached(file) == file.downloadCount >= file.maxDownloads
Stored == {i \in Ids : files[i] # NoFile}
\* faulty variant: $lte in place of $lt
findExpiredFilesLte(t) ==
    {i \in Stored : files[i].isExpired \/ files[i].expiryTime <= t}
findExpiredFiles(t) ==
    {i \in Stored : files[i].isExpired \/ files[i].expiryTime < t}
\* faulty variant: the flag is computed against uploadTime
preSaveAgainstUpload(file, t) ==
    [file EXCEPT !.isExpired = t > file.uploadTime]
\* pre('save') hooks: the default horizon applies only to a missing expiryTime;
\* the isExpired flag is recomputed against the clock
preSave(file, t) ==
    LET withExpiry == IF file.expiryTime = 0
                      THEN [file EXCEPT !.expiryTime = t + DefaultExpiryHours * HourMs]
                      ELSE file
    IN [withExpiry EXCEPT !.isExpired = isFileExpired(withExpiry, t)]

Init ==
    /\ now = 0
    /\ files = [i \in Ids |-> NoFile]
    /\ disk = {}
    /\ stats = [u \in Users |-> [totalFiles |-> 0, totalDownloads |-> 0]]
    /\ uploads = 0
    /\ req = [r \in Reqs |-> IdleReq]
    /\ svc = [isRunning |-> FALSE, intervalId |-> NoTimer]
    /\ timers = {}
    /\ pass = [p \in Passes |-> IdlePass]
    /\ rec = IdleRec
    /\ log = "none"

\* ----------------------------------------------------------- the clock
Tick ==
    /\ \E d \in TickSteps :
          /\ now + d <= Horizon
          /\ now' = now + d
    /\ UNCHANGED <<files, disk, stats, uploads, req, svc, timers, pass, rec, log>>

\* the clock goes on for a second stretch of the same length
TickBeyond ==
    /\ \E d \in TickSteps :
          /\ now + d > Horizon
          /\ now + d <= 2 * Horizon
          /\ now' = now + d
    /\ UNCHANGED <<files, disk, stats, uploads, req, svc, timers, pass, rec, log>>

\* if (fs.existsSync(p)) fs.unlinkSync(p)
\* faulty variant: the blob is left on the disk
unlinkNothing(d, p) == d
unlinkIfExists(d, p) == IF p \in d THEN d \ {p} ELSE d

\* ------------------------------------------------- POST /upload (files.js)
\* validateEmail: body('expiryHours').optional().isInt({ min: 1, max: 168 })
validateEmail(hrs) ==
    hrs = <<>> \/ (hrs[1] >= MinExpiryHours /\ hrs[1] <= MaxExpiryHours)

\* faulty variant: the wrapped res.send only forwards
cleanupOnErrorKeeps(d, hasFile, path, status) == d
\* cleanupOnError: the wrapped res.send unlinks req.file.path on a status >= 400
cleanupOnError(d, hasFile, path, status) ==
    IF status >= 400 /\ hasFile THEN d \ {path} ELSE d

\* faulty variant: the expiryHours field is ignored
expiryTimeOfDefault(t, hrs) == t + DefaultExpiryHours * HourMs
\* const expiryHours = req.body.expiryHours || 24;
\* const expiryTime = moment().add(expiryHours, 'hours').toDate();
expiryTimeOf(t, hrs) ==
    LET expiryHours == IF hrs = <<>> THEN DefaultExpiryHours ELSE hrs[1]
    IN t + expiryHours * HourMs

\* new File({...}): the schema defaults fill what the route does not set
newFile(fileId, path, t, hrs, u) ==
    [id |-> fileId, filePath |-> path, uploadTime |-> t,
     expiryTime |-> expiryTimeOf(t, hrs), downloadCount |-> 0,
     maxDownloads |-> MaxDownloads, isExpired |-> FALSE,
     createdBy |-> u, accessLog |-> <<>>]

\* multer writes the blob, validateEmail runs, the handler builds the document
\* and calls save()
upload(r, u, hasFile, hrs) ==
    /\ req[r].pc = "idle"
    /\ hasFile => uploads < MaxUploads
    /\ LET name == uploads + 1
           path == join(UploadDir, name)
           written == IF hasFile THEN disk \cup {path} ELSE disk
           answer(resp) ==
               /\ uploads' = uploads
               /\ disk' = cleanupOnError(written, hasFile, path, resp.status)
               /\ req' = [req EXCEPT ![r] =
                            [IdleReq EXCEPT !.op = "upload", !.pc = "sent", !.resp = resp]]
       IN IF ~validateEmail(hrs)
          THEN answer(Resp(400, "", "Expiry must be between 1 and 168 hours"))
          ELSE IF ~hasFile
          THEN answer(Resp(400, "No file uploaded", "Please select a file to upload"))
          ELSE /\ uploads' = uploads + 1
               /\ disk' = written
               /\ req' = [req EXCEPT ![r] =
                            [IdleReq EXCEPT !.op = "upload", !.pc = "saving",
                                            !.id = name, !.user = u,
                                            !.file = newFile(name, path, now, hrs, u)]]
    /\ UNCHANGED <<now, files, stats, svc, timers, pass, rec, log>>

\* await fileData.save() resolves: the document is in the collection
uploadSave(r) ==
    /\ req[r].op = "upload" /\ req[r].pc = "saving"
    /\ files' = [files EXCEPT ![req[r].id] = preSave(req[r].file, now)]
    /\ req' = [req EXCEPT ![r] =
                 IF req[r].user # NoUser
                 THEN [@ EXCEPT !.pc = "stats"]
                 ELSE [@ EXCEPT !.pc = "sent", !.file = NoFile, !.user = NoUser,
                                !.resp = Resp(201, "", "File uploaded successfully")]]
    /\ UNCHANGED <<now, disk, stats, uploads, svc, timers, pass, rec, log>>

\* await req.user.updateUploadStats(req.file.size) resolves
uploadStats(r) ==
    /\ req[r].op = "upload" /\ req[r].pc = "stats"
    /\ stats' = [stats EXCEPT ![req[r].user].totalFiles = @ + 1]
    /\ req' = [req EXCEPT ![r] = [@ EXCEPT !.pc = "sent", !.file = NoFile, !.user = NoUser,
                                     !.resp = Resp(201, "", "File uploaded successfully")]]
    /\ UNCHANGED <<now, files, disk, uploads, svc, timers, pass, rec, log>>

UploadFailedResp == Resp(500, "Upload failed", "An error occurred while uploading the file")

\* faulty variant: the catch answers without unlinking req.file.path
uploadSaveFailsNoCleanup(r) ==
    /\ req[r].op = "upload" /\ req[r].pc = "saving"
    /\ req' = [req EXCEPT ![r] = [@ EXCEPT !.pc = "sent", !.file = NoFile, !.user = NoUser,
                                     !.resp = UploadFailedResp]]
    /\ UNCHANGED <<now, files, disk, stats, uploads, svc, timers, pass, rec, log>>

\* await fileData.save() rejects: the catch unlinks req.file.path and answers
\* 500
uploadSaveFails(r) ==
    /\ req[r].op = "upload" /\ req[r].pc = "saving"
    /\ disk' = unlinkIfExists(disk, req[r].file.filePath)
    /\ req' = [req EXCEPT ![r] = [@ EXCEPT !.pc = "sent", !.file = NoFile, !.user = NoUser,
                                     !.resp = UploadFailedResp]]
    /\ UNCHANGED <<now, files, stats, uploads, svc, timers, pass, rec, log>>

\* await fileData.save() rejects and fs.unlinkSync throws, in the catch and
\* in the wrapped res.send of cleanupOnError: both errors are logged, the
\* blob stays
uploadSaveFailsKeepsBlob(r) ==
    /\ req[r].op = "upload" /\ req[r].pc = "saving"
    /\ existsSync(req[r].file.filePath)
    /\ req' = [req EXCEPT ![r] = [@ EXCEPT !.pc = "sent", !.file = NoFile, !.user = NoUser,
                                     !.resp = UploadFailedResp]]
    /\ UNCHANGED <<now, files, disk, stats, uploads, svc, timers, pass, rec, log>>

\* await req.user.updateUploadStats(req.file.size) rejects: nothing catches
\* it before the handler's catch, which unlinks req.file.path and answers
\* 500; the document was saved
uploadStatsFails(r) ==
    /\ req[r].op = "upload" /\ req[r].pc = "stats"
    /\ disk' = unlinkIfExists(disk, req[r].file.filePath)
    /\ req' = [req EXCEPT ![r] = [@ EXCEPT !.pc = "sent", !.file = NoFile, !.user = NoUser,
                                     !.resp = UploadFailedResp]]
    /\ UNCHANGED <<now, files, stats, uploads, svc, timers, pass, rec, log>>

\* ---------------------------------------------------- GET /:id (files.js)
NotFoundResp == Resp(404, "File not found", "The requested file does not exist or has expired")
ExpiredResp == Resp(410, "File expired", "This file has expired and is no longer available")
LimitResp == Resp(410, "Download limit reached", "Maximum number of downloads reached for this file")

\* faulty variant: the blob is looked for as in the download route
infoResponseChecksDisk(file, t) ==
    IF file = NoFile THEN NotFoundResp
    ELSE IF isFileExpired(file, t) THEN ExpiredResp
    ELSE IF isDownloadLimitReached(file) THEN LimitResp
    ELSE IF ~existsSync(file.filePath)
         THEN Resp(404, "File not found", "File has been removed from storage")
    ELSE Resp(200, "", "")

\* the answer of router.get('/:id') to a findOne result
infoResponse(file, t) ==
    IF file = NoFile THEN NotFoundResp
    ELSE IF isFileExpired(file, t) THEN ExpiredResp
    ELSE IF isDownloadLimitReached(file) THEN LimitResp
    ELSE Resp(200, "", "")

getFileInfo(r, id) ==
    /\ req[r].pc = "idle"
    /\ req' = [req EXCEPT ![r] =
                 [IdleReq EXCEPT !.op = "info", !.pc = "sent", !.id = id,
                                 !.resp = infoResponse(files[id], now)]]
    /\ UNCHANGED <<now, files, disk, stats, uploads, svc, timers, pass, rec, log>>

\* ------------------------------------------- GET /:id/download (files.js)
RemovedResp == Resp(404, "File not found", "File has been removed from storage")
DownloadFailedResp ==
    Resp(500, "Download failed", "An error occurred while downloading the file")

\* faulty variant: the limit is checked before the expiry
downloadGateLimitFirst(file, t) ==
    IF file = NoFile THEN NotFoundResp
    ELSE IF isDownloadLimitReached(file) THEN LimitResp
    ELSE IF isFileExpired(file, t) THEN ExpiredResp
    ELSE IF ~existsSync(file.filePath) THEN RemovedResp
    ELSE Resp(200, "", "")
\* faulty variant: the expiry is not looked at
downloadGateNoExpiry(file, t) ==
    IF file = NoFile THEN NotFoundResp
    ELSE IF isDownloadLimitReached(file) THEN LimitResp
    ELSE IF ~existsSync(file.filePath) THEN RemovedResp
    ELSE Resp(200, "", "")
\* faulty variant: the blob is not looked for
downloadGateNoDiskCheck(file, t) ==
    IF file = NoFile THEN NotFoundResp
    ELSE IF isFileExpired(file, t) THEN ExpiredResp
    ELSE IF isDownloadLimitReached(file) THEN LimitResp
    ELSE Resp(200, "", "")
\* the early returns of router.get('/:id/download'); status 200 stands for
\* falling through to the increment
downloadGate(file, t) ==
    IF file = NoFile THEN NotFoundResp
    ELSE IF isFileExpired(file, t) THEN ExpiredResp
    ELSE IF isDownloadLimitReached(file) THEN LimitResp
    ELSE IF ~existsSync(file.filePath) THEN RemovedResp
    ELSE Resp(200, "", "")

\* file.downloadCount += 1
incrementDownloadCount(file) == [file EXCEPT !.downloadCount = @ + 1]

\* findOne resolves, the gate runs, the local document is changed and save()
\* is called
download(r, id) ==
    /\ req[r].pc = "idle"
    /\ LET file == files[id]
           gate == downloadGate(file, now)
       IN req' = [req EXCEPT ![r] =
                    IF gate.status # 200
                    THEN [IdleReq EXCEPT !.op = "download", !.pc = "sent", !.id = id,
                                         !.resp = gate]
                    ELSE [IdleReq EXCEPT !.op = "download", !.pc = "saving", !.id = id,
                                         !.file = incrementDownloadCount(file)]]
    /\ UNCHANGED <<now, files, disk, stats, uploads, svc, timers, pass, rec, log>>

\* faulty variant: the counter is written with $inc
savedDownloadCountInc(storedCount, local) == storedCount + 1
\* file.downloadCount was assigned, so save() writes it with $set: the stored
\* counter becomes the counter of the in-memory document
savedDownloadCount(storedCount, local) == local.downloadCount

\* await file.save() resolves: $set of the changed paths, $push of the new
\* access-log entry; a document deleted meanwhile makes save() reject
downloadSave(r) ==
    /\ req[r].op = "download" /\ req[r].pc = "saving"
    /\ LET id == req[r].id
           local == preSave(req[r].file, now)
       IN IF files[id] = NoFile
          THEN /\ files' = files
               /\ req' = [req EXCEPT ![r] = [@ EXCEPT !.pc = "sent", !.file = NoFile, !.user = NoUser,
                                                !.resp = DownloadFailedResp]]
          ELSE /\ files' = [files EXCEPT ![id] =
                              [@ EXCEPT !.downloadCount = savedDownloadCount(@, local),
                                        !.isExpired = local.isExpired,
                                        !.accessLog = Append(@, [ip |-> "client"])]]
               /\ req' = [req EXCEPT ![r] =
                            IF local.createdBy # NoUser
                            THEN [@ EXCEPT !.pc = "stats"]
                            ELSE [@ EXCEPT !.pc = "sent", !.file = NoFile, !.user = NoUser,
                                           !.resp = Resp(200, "", "")]]
    /\ UNCHANGED <<now, disk, stats, uploads, svc, timers, pass, rec, log>>

\* User.findById and user.updateDownloadStats() resolve; the blob is streamed
downloadStats(r) ==
    /\ req[r].op = "download" /\ req[r].pc = "stats"
    /\ stats' = [stats EXCEPT ![req[r].file.createdBy].totalDownloads = @ + 1]
    /\ req' = [req EXCEPT ![r] = [@ EXCEPT !.pc = "sent", !.file = NoFile, !.user = NoUser,
                                     !.resp = Resp(200, "", "")]]
    /\ UNCHANGED <<now, files, disk, uploads, svc, timers, pass, rec, log>>

\* faulty variant: no try around the statistics, the handler's catch answers
downloadStatsFailsUncaught(r) ==
    /\ req[r].op = "download" /\ req[r].pc = "stats"
    /\ req' = [req EXCEPT ![r] = [@ EXCEPT !.pc = "sent", !.file = NoFile, !.user = NoUser,
                                     !.resp = DownloadFailedResp]]
    /\ UNCHANGED <<now, files, disk, stats, uploads, svc, timers, pass, rec, log>>

\* User.findById resolves with null or rejects, or updateDownloadStats
\* rejects: the inner catch logs, nothing is counted, the blob is streamed
downloadStatsFails(r) ==
    /\ req[r].op = "download" /\ req[r].pc = "stats"
    /\ req' = [req EXCEPT ![r] = [@ EXCEPT !.pc = "sent", !.file = NoFile, !.user = NoUser,
                                     !.resp = Resp(200, "", "")]]
    /\ UNCHANGED <<now, files, disk, stats, uploads, svc, timers, pass, rec, log>>

\* ------------------------------------------------- DELETE /:id (files.js)
ForbiddenResp == Resp(403, "Unauthorized", "You are not authorized to delete this file")
DeleteFailedResp == Resp(500, "Delete failed", "An error occurred while deleting the file")

\* faulty variant: a missing document is not looked for, reading its
\* createdBy throws and the catch answers 500
deleteGateNoNullCheck(file, u) ==
    IF file = NoFile THEN DeleteFailedResp
    ELSE IF file.createdBy # NoUser /\ u = NoUser THEN DeleteFailedResp
    ELSE IF file.createdBy # NoUser /\ file.createdBy # u THEN ForbiddenResp
    ELSE Resp(200, "", "")
\* faulty variant: the owner is not compared
deleteGateAnyone(file, u) ==
    IF file = NoFile THEN Resp(404, "File not found", "The requested file does not exist")
    ELSE Resp(200, "", "")
\* the early returns of router.delete('/:id'); reading req.user.id of a
\* request without a user throws, which the catch answers with 500
deleteGate(file, u) ==
    IF file = NoFile THEN Resp(404, "File not found", "The requested file does not exist")
    ELSE IF file.createdBy # NoUser /\ u = NoUser THEN DeleteFailedResp
    ELSE IF file.createdBy # NoUser /\ file.createdBy # u THEN ForbiddenResp
    ELSE Resp(200, "", "")

deleteFile(r, id, u) ==
    /\ req[r].pc = "idle"
    /\ LET file == files[id]
           gate == deleteGate(file, u)
       IN IF gate.status # 200
          THEN /\ disk' = disk
               /\ req' = [req EXCEPT ![r] =
                            [IdleReq EXCEPT !.op = "delete", !.pc = "sent", !.id = id,
                                            !.resp = gate]]
          ELSE /\ disk' = unlinkIfExists(disk, file.filePath)
               /\ req' = [req EXCEPT ![r] =
                            [IdleReq EXCEPT !.op = "delete", !.pc = "deleting",
                                            !.id = id, !.user = u, !.file = file]]
    /\ UNCHANGED <<now, files, stats, uploads, svc, timers, pass, rec, log>>

\* await File.findByIdAndDelete(file._id) resolves
deleteDone(r) ==
    /\ req[r].op = "delete" /\ req[r].pc = "deleting"
    /\ files' = [files EXCEPT ![req[r].id] = NoFile]
    /\ req' = [req EXCEPT ![r] = [@ EXCEPT !.pc = "sent", !.file = NoFile, !.user = NoUser,
                                     !.resp = Resp(200, "", "File deleted successfully")]]
    /\ UNCHANGED <<now, disk, stats, uploads, svc, timers, pass, rec, log>>

\* fs.unlinkSync throws (a locked file, an I/O error): the catch answers 500,
\* the blob and the document stay
deleteUnlinkFails(r, id, u) ==
    /\ req[r].pc = "idle"
    /\ deleteGate(files[id], u).status = 200
    /\ existsSync(files[id].filePath)
    /\ req' = [req EXCEPT ![r] =
                 [IdleReq EXCEPT !.op = "delete", !.pc = "sent", !.id = id,
                                 !.resp = DeleteFailedResp]]
    /\ UNCHANGED <<now, files, disk, stats, uploads, svc, timers, pass, rec, log>>

\* await File.findByIdAndDelete(file._id) rejects: the catch answers 500, the
\* document stays although its blob is unlinked
deleteDoneFails(r) ==
    /\ req[r].op = "delete" /\ req[r].pc = "deleting"
    /\ req' = [req EXCEPT ![r] = [@ EXCEPT !.pc = "sent", !.file = NoFile, !.user = NoUser,
                                     !.resp = DeleteFailedResp]]
    /\ UNCHANGED <<now, files, disk, stats, uploads, svc, timers, pass, rec, log>>

\* ------------------------------------------- CleanupService (cleanup.js)
\* cleanupExpiredFiles() up to its first await: findExpiredFiles() builds
\* the query with new Date()
launchPass == [IdlePass EXCEPT !.pc = "query", !.cutoff = now]

\* the smallest handle no armed timer has (setInterval returns a fresh one)
freshTimer == CHOOSE h \in 1..(Cardinality(timers) + 1) : h \notin timers

\* faulty variant: start() without its isRunning guard
startUnguarded(p) ==
    /\ pass[p].pc = "idle"
    /\ log' = "Starting cleanup service..."
    /\ pass' = [pass EXCEPT ![p] = launchPass]
    /\ timers' = timers \cup {freshTimer}
    /\ svc' = [isRunning |-> TRUE, intervalId |-> freshTimer]
    /\ UNCHANGED <<now, files, disk, stats, uploads, req, rec>>

start(p) ==
    IF svc.isRunning
    THEN /\ log' = "Cleanup service is already running"
         /\ UNCHANGED <<now, files, disk, stats, uploads, req, svc, timers, pass, rec>>
    ELSE /\ pass[p].pc = "idle"
         /\ log' = "Starting cleanup service..."
         /\ pass' = [pass EXCEPT ![p] = launchPass]
         /\ timers' = timers \cup {freshTimer}
         /\ svc' = [isRunning |-> TRUE, intervalId |-> freshTimer]
         /\ UNCHANGED <<now, files, disk, stats, uploads, req, rec>>

\* faulty variant: stop() without clearInterval
stopKeepsTimer ==
    IF ~svc.isRunning
    THEN /\ log' = "Cleanup service is not running"
         /\ UNCHANGED <<now, files, disk, stats, uploads, req, svc, timers, pass, rec>>
    ELSE /\ log' = "Stopping cleanup service..."
         /\ svc' = [isRunning |-> FALSE, intervalId |-> NoTimer]
         /\ UNCHANGED <<now, files, disk, stats, uploads, req, timers, pass, rec>>

stop ==
    IF ~svc.isRunning
    THEN /\ log' = "Cleanup service is not running"
         /\ UNCHANGED <<now, files, disk, stats, uploads, req, svc, timers, pass, rec>>
    ELSE /\ log' = "Stopping cleanup service..."
         /\ timers' = IF svc.intervalId # NoTimer THEN timers \ {svc.intervalId} ELSE timers
         /\ svc' = [isRunning |-> FALSE, intervalId |-> NoTimer]
         /\ UNCHANGED <<now, files, disk, stats, uploads, req, pass, rec>>

\* faulty variant: setTimeout in place of setInterval, the timer fires once
timerTickOnce(p) ==
    /\ timers # {}
    /\ pass[p].pc = "idle"
    /\ pass' = [pass EXCEPT ![p] = launchPass]
    /\ timers' = {}
    /\ UNCHANGED <<now, files, disk, stats, uploads, req, svc, rec, log>>

\* an armed interval timer fires: () => { this.cleanupExpiredFiles(); }
timerTick(p) ==
    /\ timers # {}
    /\ pass[p].pc = "idle"
    /\ pass' = [pass EXCEPT ![p] = launchPass]
    /\ UNCHANGED <<now, files, disk, stats, uploads, req, svc, timers, rec, log>>

\* await File.findExpiredFiles() resolves
sweepQuery(p) ==
    /\ pass[p].pc = "query"
    /\ LET found == {[id |-> i, filePath |-> files[i].filePath] :
                        i \in findExpiredFiles(pass[p].cutoff)}
       IN pass' = [pass EXCEPT ![p] =
                     IF found = {} THEN IdlePass
                     ELSE [@ EXCEPT !.pc = "loop", !.expiredFiles = found, !.todo = found,
                                    !.before = [files |-> files, disk |-> disk]]]
    /\ UNCHANGED <<now, files, disk, stats, uploads, req, svc, timers, rec, log>>

\* one iteration up to its await: the blob is unlinked, findByIdAndDelete is called
sweepUnlink(p) ==
    /\ pass[p].pc = "loop"
    /\ \E f \in pass[p].todo :
          /\ disk' = unlinkIfExists(disk, f.filePath)
          /\ pass' = [pass EXCEPT ![p] = [@ EXCEPT !.pc = "deleting", !.current = f.id]]
    /\ UNCHANGED <<now, files, stats, uploads, req, svc, timers, rec, log>>

\* faulty variant: a document that is already gone is not counted
sweepDeleteCountsRemovals(p) ==
    /\ pass[p].pc = "deleting"
    /\ LET rest == {f \in pass[p].todo : f.id # pass[p].current}
           removed == IF files[pass[p].current] # NoFile THEN 1 ELSE 0
       IN /\ files' = [files EXCEPT ![pass[p].current] = NoFile]
          /\ pass' = [pass EXCEPT ![p] =
                        [@ EXCEPT !.pc = IF rest = {} THEN "stats" ELSE "loop",
                                  !.todo = rest, !.current = 0,
                                  !.deletedCount = @ + removed]]
    /\ UNCHANGED <<now, disk, stats, uploads, req, svc, timers, rec, log>>

\* faulty variant: a document that is already gone counts as an error
sweepDeleteRejectsMissing(p) ==
    /\ pass[p].pc = "deleting"
    /\ LET rest == {f \in pass[p].todo : f.id # pass[p].current}
           gone == files[pass[p].current] = NoFile
       IN /\ files' = [files EXCEPT ![pass[p].current] = NoFile]
          /\ pass' = [pass EXCEPT ![p] =
                        [@ EXCEPT !.pc = IF rest = {} THEN "stats" ELSE "loop",
                                  !.todo = rest, !.current = 0,
                                  !.deletedCount = IF gone THEN @ ELSE @ + 1,
                                  !.errorCount = IF gone THEN @ + 1 ELSE @]]
    /\ UNCHANGED <<now, disk, stats, uploads, req, svc, timers, rec, log>>

\* await File.findByIdAndDelete(file._id) resolves; deletedCount++
sweepDelete(p) ==
    /\ pass[p].pc = "deleting"
    /\ LET rest == {f \in pass[p].todo : f.id # pass[p].current}
       IN /\ files' = [files EXCEPT ![pass[p].current] = NoFile]
          /\ pass' = [pass EXCEPT ![p] =
                        [@ EXCEPT !.pc = IF rest = {} THEN "stats" ELSE "loop",
                                  !.todo = rest, !.current = 0,
                                  !.deletedCount = @ + 1]]
    /\ UNCHANGED <<now, disk, stats, uploads, req, svc, timers, rec, log>>

\* the loop is over: the counts are logged, await this.getCleanupStats()
\* resolves and the pass returns
sweepStats(p) ==
    /\ pass[p].pc = "stats"
    /\ pass' = [pass EXCEPT ![p] = IdlePass]
    /\ UNCHANGED <<now, files, disk, stats, uploads, req, svc, timers, rec, log>>

\* await File.findExpiredFiles() rejects: the outer catch logs, the pass returns
sweepQueryFails(p) ==
    /\ pass[p].pc = "query"
    /\ pass' = [pass EXCEPT ![p] = IdlePass]
    /\ UNCHANGED <<now, files, disk, stats, uploads, req, svc, timers, rec, log>>

\* faulty variant: no inner catch, the throw ends the loop
sweepUnlinkFailsAborts(p) ==
    /\ pass[p].pc = "loop"
    /\ \E f \in pass[p].todo : existsSync(f.filePath)
    /\ pass' = [pass EXCEPT ![p] = [@ EXCEPT !.pc = "stats", !.todo = {},
                                       !.errorCount = @ + 1]]
    /\ UNCHANGED <<now, files, disk, stats, uploads, req, svc, timers, rec, log>>

\* one iteration whose fs.unlinkSync throws: the inner catch counts the error
\* and the loop goes on with the next document
sweepUnlinkFails(p) ==
    /\ pass[p].pc = "loop"
    /\ \E f \in pass[p].todo :
          /\ existsSync(f.filePath)
          /\ LET rest == pass[p].todo \ {f}
             IN pass' = [pass EXCEPT ![p] =
                           [@ EXCEPT !.pc = IF rest = {} THEN "stats" ELSE "loop",
                                     !.todo = rest, !.errorCount = @ + 1]]
    /\ UNCHANGED <<now, files, disk, stats, uploads, req, svc, timers, rec, log>>

\* await File.findByIdAndDelete(file._id) rejects: the inner catch counts the
\* error; the blob is already unlinked
sweepDeleteFails(p) ==
    /\ pass[p].pc = "deleting"
    /\ LET rest == {f \in pass[p].todo : f.id # pass[p].current}
       IN pass' = [pass EXCEPT ![p] =
                     [@ EXCEPT !.pc = IF rest = {} THEN "stats" ELSE "loop",
                               !.todo = rest, !.current = 0,
                               !.errorCount = @ + 1]]
    /\ UNCHANGED <<now, files, disk, stats, uploads, req, svc, timers, rec, log>>

\* cleanupFile(fileId) up to its await; what the promise settles with is kept
\* in the response slot: error holds the message of a thrown Error, message
\* the message of the returned object
CleanupNotFound == Resp(0, "File not found", "")
CleanupDone == Resp(0, "", "File cleaned up successfully")
CleanupThrew == Resp(0, "error", "")

cleanupFile(r, id) ==
    /\ req[r].pc = "idle"
    /\ LET file == files[id]
       IN IF file = NoFile
          THEN /\ disk' = disk
               /\ req' = [req EXCEPT ![r] =
                            [IdleReq EXCEPT !.op = "cleanupFile", !.pc = "sent", !.id = id,
                                            !.resp = CleanupNotFound]]
          ELSE /\ disk' = unlinkIfExists(disk, file.filePath)
               /\ req' = [req EXCEPT ![r] =
                            [IdleReq EXCEPT !.op = "cleanupFile", !.pc = "deleting",
                                            !.id = id, !.file = file]]
    /\ UNCHANGED <<now, files, stats, uploads, svc, timers, pass, rec, log>>

\* fs.unlinkSync throws inside cleanupFile: the catch rethrows
cleanupFileUnlinkFails(r, id) ==
    /\ req[r].pc = "idle"
    /\ files[id] # NoFile
    /\ existsSync(files[id].filePath)
    /\ req' = [req EXCEPT ![r] =
                 [IdleReq EXCEPT !.op = "cleanupFile", !.pc = "sent", !.id = id,
                                 !.resp = CleanupThrew]]
    /\ UNCHANGED <<now, files, disk, stats, uploads, svc, timers, pass, rec, log>>

\* await File.findByIdAndDelete(file._id) resolves inside cleanupFile
cleanupFileDone(r) ==
    /\ req[r].op = "cleanupFile" /\ req[r].pc = "deleting"
    /\ files' = [files EXCEPT ![req[r].id] = NoFile]
    /\ req' = [req EXCEPT ![r] = [@ EXCEPT !.pc = "sent", !.file = NoFile,
                                     !.resp = CleanupDone]]
    /\ UNCHANGED <<now, disk, stats, uploads, svc, timers, pass, rec, log>>

\* await File.findByIdAndDelete(file._id) rejects inside cleanupFile
cleanupFileDoneFails(r) ==
    /\ req[r].op = "cleanupFile" /\ req[r].pc = "deleting"
    /\ req' = [req EXCEPT ![r] = [@ EXCEPT !.pc = "sent", !.file = NoFile,
                                     !.resp = CleanupThrew]]
    /\ UNCHANGED <<now, files, disk, stats, uploads, svc, timers, pass, rec, log>>

\* cleanupOrphanedFiles() up to its await: readdirSync, then File.find is called
cleanupOrphanedFiles ==
    /\ rec.pc = "idle"
    /\ rec' = [IdleRec EXCEPT !.pc = "find", !.filesOnDisk = readdirSync(UploadDir)]
    /\ UNCHANGED <<now, files, disk, stats, uploads, req, svc, timers, pass, log>>

\* new Set(dbFiles.map(file => path.basename(file.filePath)))
dbFilePaths == {basename(files[i].filePath) : i \in Stored}

\* faulty variant: every listed name is unlinked
orphansOfAll(listing, referenced) == listing
\* the names of the listing that the loop unlinks
orphansOf(listing, referenced) == {n \in listing : n \notin referenced}

\* await File.find({}, 'filePath') resolves and the loop runs to its end;
\* statSync of a listed name that has left the disk throws out of the loop
reconcile ==
    /\ rec.pc = "find"
    /\ LET orphans == orphansOf(rec.filesOnDisk, dbFilePaths)
           gone == {n \in rec.filesOnDisk : ~existsSync(join(UploadDir, n))}
       IN IF gone = {}
          THEN /\ disk' = disk \ {join(UploadDir, n) : n \in orphans}
               /\ rec' = [rec EXCEPT !.pc = "returned", !.orphanedCount = Cardinality(orphans),
                                     !.outcome = "returned"]
          ELSE \E done \in SUBSET orphans :
                  /\ disk' = disk \ {join(UploadDir, n) : n \in done}
                  /\ rec' = [rec EXCEPT !.pc = "returned", !.orphanedCount = Cardinality(done),
                                        !.outcome = "threw"]
    /\ UNCHANGED <<now, files, stats, uploads, req, svc, timers, pass, log>>

\* faulty variant: no try around fs.unlinkSync, the first throw ends the pass
reconcileSomeFailAborts ==
    /\ rec.pc = "find"
    /\ LET orphans == orphansOf(rec.filesOnDisk, dbFilePaths)
       IN /\ orphans # {}
          /\ \E done \in SUBSET orphans :
                /\ done # orphans
                /\ disk' = disk \ {join(UploadDir, n) : n \in done}
                /\ rec' = [rec EXCEPT !.pc = "returned", !.orphanedCount = Cardinality(done),
                                      !.outcome = "threw"]
    /\ UNCHANGED <<now, files, stats, uploads, req, svc, timers, pass, log>>

\* await File.find resolves and the loop runs to its end; fs.unlinkSync throws
\* for some of the orphans: the inner catch counts them, they stay on the disk
reconcileSomeFail ==
    /\ rec.pc = "find"
    /\ LET orphans == orphansOf(rec.filesOnDisk, dbFilePaths)
           gone == {n \in rec.filesOnDisk : ~existsSync(join(UploadDir, n))}
       IN /\ gone = {}
          /\ \E failed \in SUBSET orphans :
                /\ failed # {}
                /\ disk' = disk \ {join(UploadDir, n) : n \in orphans \ failed}
                /\ rec' = [rec EXCEPT !.pc = "returned",
                                      !.orphanedCount = Cardinality(orphans \ failed),
                                      !.errorCount = Cardinality(failed),
                                      !.outcome = "returned"]
    /\ UNCHANGED <<now, files, stats, uploads, req, svc, timers, pass, log>>

\* the caller of cleanupOrphanedFiles() has taken its result
reconcileReturn ==
    /\ rec.pc = "returned"
    /\ rec' = IdleRec
    /\ UNCHANGED <<now, files, disk, stats, uploads, req, svc, timers, pass, log>>

\* the response of a request has left: its slot is free again
release(r) ==
    /\ req[r].pc = "sent"
    /\ req' = [req EXCEPT ![r] = IdleReq]
    /\ UNCHANGED <<now, files, disk, stats, uploads, svc, timers, pass, rec, log>>

\* the caller of start() / stop() goes on
resume ==
    /\ log # "none"
    /\ log' = "none"
    /\ UNCHANGED <<now, files, disk, stats, uploads, req, svc, timers, pass, rec>>

\* ------------------------------------------------------- process restart
\* the process dies while an operation is in flight (between an upload's blob
\* write and its metadata save, between an unlink and the removal of the
\* document) and is started again: the collection and the disk persist,
\* everything in memory is as after construction
InFlight ==
    \/ \E r \in Reqs : req[r].pc \notin {"idle", "sent"}
    \/ \E p \in Passes : pass[p].pc # "idle"
    \/ rec.pc = "find"

Crash ==
    /\ InFlight
    /\ req' = [r \in Reqs |-> IdleReq]
    /\ pass' = [p \in Passes |-> IdlePass]
    /\ rec' = IdleRec
    /\ svc' = [isRunning |-> FALSE, intervalId |-> NoTimer]
    /\ timers' = {}
    /\ log' = "none"
    /\ UNCHANGED <<now, files, disk, stats, uploads>>

\* ------------------------------------------------------- specifications
Quiescent ==
    /\ \A r \in Reqs : req[r].pc = "idle"
    /\ \A p \in Passes : pass[p].pc = "idle"
    /\ rec.pc = "idle"
    /\ log = "none"

\* requests and passes overlap freely; owned and anonymous uploads
Next ==
    \/ \E r \in Reqs, u \in {NoUser, "ownerB"}, hasFile \in BOOLEAN, hrs \in {<<>>, <<1>>} :
          upload(r, u, hasFile, hrs)
    \/ \E r \in Reqs, id \in Ids : getFileInfo(r, id)
    \/ \E r \in Reqs, id \in Ids : download(r, id)
    \/ \E r \in Reqs, id \in Ids, u \in Users \cup {NoUser} : deleteFile(r, id, u)
    \/ \E p \in Passes : start(p)
    \/ stop
    \/ \E p \in Passes : timerTick(p)
    \/ cleanupOrphanedFiles
    \/ \E r \in Reqs : uploadSave(r)
    \/ \E r \in Reqs : uploadStats(r)
    \/ \E r \in Reqs : downloadSave(r)
    \/ \E r \in Reqs : downloadStats(r)
    \/ \E r \in Reqs : deleteDone(r)
    \/ \E p \in Passes : sweepQuery(p)
    \/ \E p \in Passes : sweepUnlink(p)
    \/ \E p \in Passes : sweepDelete(p)
    \/ \E p \in Passes : sweepStats(p)
    \/ reconcile
    \/ reconcileReturn
    \/ \E r \in Reqs : release(r)
    \/ resume
    \/ Tick
    \/ Crash

Spec == Init /\ [][Next]_vars

\* One operation at a time (nothing begins while another is in flight), with
\* anonymous uploads carrying every kind of expiryHours field.  No document
\* has an owner, so the two statistics steps never run.  The cleanup service
\* is left out: it runs in the two specifications below.
ExpiryNext ==
    \/ \E hasFile \in BOOLEAN, hrs \in ExpiryHoursInputs :
          Quiescent /\ upload(1, NoUser, hasFile, hrs)
    \/ \E id \in Ids : Quiescent /\ getFileInfo(1, id)
    \/ \E id \in Ids : Quiescent /\ download(1, id)
    \/ \E id \in Ids, u \in Users \cup {NoUser} : Quiescent /\ deleteFile(1, id, u)
    \/ uploadSave(1)
    \/ downloadSave(1)
    \/ deleteDone(1)
    \/ release(1)
    \/ Tick

ExpirySpec == Init /\ [][ExpiryNext]_vars

\* One operation at a time, with uploads by ownerB that expire after one
\* hour and deletions requested by ownerA, ownerB and nobody; the process
\* does not die.
OwnerNext ==
    \/ \E hasFile \in BOOLEAN : Quiescent /\ upload(1, "ownerB", hasFile, <<1>>)
    \/ \E id \in Ids : Quiescent /\ getFileInfo(1, id)
    \/ \E id \in Ids : Quiescent /\ download(1, id)
    \/ \E id \in Ids, u \in Users \cup {NoUser} : Quiescent /\ deleteFile(1, id, u)
    \/ Quiescent /\ start(1)
    \/ Quiescent /\ stop
    \/ Quiescent /\ timerTick(1)
    \/ uploadSave(1)
    \/ uploadStats(1)
    \/ downloadSave(1)
    \/ downloadStats(1)
    \/ deleteDone(1)
    \/ sweepQuery(1)
    \/ sweepUnlink(1)
    \/ sweepDelete(1)
    \/ sweepStats(1)
    \/ release(1)
    \/ resume
    \/ Tick

OwnerSpec == Init /\ [][OwnerNext]_vars

\* One operation at a time, anonymous uploads that expire after one hour, a
\* process that may die at any await, and reconciliation of the upload
\* directory.
StorageNext ==
    \/ \E hasFile \in BOOLEAN : Quiescent /\ upload(1, NoUser, hasFile, <<1>>)
    \/ \E id \in Ids : Quiescent /\ getFileInfo(1, id)
    \/ \E id \in Ids : Quiescent /\ download(1, id)
    \/ \E id \in Ids, u \in Users \cup {NoUser} : Quiescent /\ deleteFile(1, id, u)
    \/ Quiescent /\ start(1)
    \/ Quiescent /\ stop
    \/ Quiescent /\ timerTick(1)
    \/ Quiescent /\ cleanupOrphanedFiles
    \/ uploadSave(1)
    \/ downloadSave(1)
    \/ deleteDone(1)
    \/ sweepQuery(1)
    \/ sweepUnlink(1)
    \/ sweepDelete(1)
    \/ sweepStats(1)
    \/ reconcile
    \/ reconcileReturn
    \/ release(1)
    \/ resume
    \/ Tick
    \/ Crash

StorageSpec == Init /\ [][StorageNext]_vars

\* One operation at a time, anonymous uploads that expire after one hour,
\* and an environment in which fs.unlinkSync may throw and a query or
\* findByIdAndDelete may reject; cleanupFile is called as well.  Nothing is
\* downloaded.
FaultNext ==
    \/ \E hasFile \in BOOLEAN : Quiescent /\ upload(1, NoUser, hasFile, <<1>>)
    \/ \E id \in Ids : Quiescent /\ getFileInfo(1, id)
    \/ \E id \in Ids : Quiescent /\ deleteFile(1, id, NoUser)
    \/ \E id \in Ids : Quiescent /\ deleteUnlinkFails(1, id, NoUser)
    \/ \E id \in Ids : Quiescent /\ cleanupFile(1, id)
    \/ \E id \in Ids : Quiescent /\ cleanupFileUnlinkFails(1, id)
    \/ Quiescent /\ start(1)
    \/ Quiescent /\ stop
    \/ Quiescent /\ timerTick(1)
    \/ uploadSave(1)
    \/ deleteDone(1)
    \/ deleteDoneFails(1)
    \/ cleanupFileDone(1)
    \/ cleanupFileDoneFails(1)
    \/ sweepQuery(1)
    \/ sweepQueryFails(1)
    \/ sweepUnlink(1)
    \/ sweepUnlinkFails(1)
    \/ sweepDelete(1)
    \/ sweepDeleteFails(1)
    \/ sweepStats(1)
    \/ release(1)
    \/ resume
    \/ Tick

FaultSpec == Init /\ [][FaultNext]_vars

\* One operation at a time over a clock that runs twice as long: anonymous
\* uploads that expire after one hour are looked up and downloaded.
ClockNext ==
    \/ \E hasFile \in BOOLEAN : Quiescent /\ upload(1, NoUser, hasFile, <<1>>)
    \/ \E id \in Ids : Quiescent /\ getFileInfo(1, id)
    \/ \E id \in Ids : Quiescent /\ download(1, id)
    \/ uploadSave(1)
    \/ downloadSave(1)
    \/ release(1)
    \/ Tick
    \/ TickBeyond

ClockSpec == Init /\ [][ClockNext]_vars

\* Downloads and deletions of one record overlap in two request slots,
\* beside the passes of the service, which is started at a quiet moment and
\* not stopped; the record is uploaded while nothing else is in flight and
\* expires after one hour.
Racers == {1, 2}

RaceNext ==
    \/ \E hasFile \in BOOLEAN : Quiescent /\ uploads = 0 /\ upload(1, NoUser, hasFile, <<1>>)
    \/ \E r \in Racers, id \in Ids : download(r, id)
    \/ \E r \in Racers, id \in Ids : deleteFile(r, id, NoUser)
    \/ Quiescent /\ start(1)
    \/ timerTick(1)
    \/ uploadSave(1)
    \/ \E r \in Racers : downloadSave(r)
    \/ \E r \in Racers : deleteDone(r)
    \/ sweepQuery(1)
    \/ sweepUnlink(1)
    \/ sweepDelete(1)
    \/ sweepStats(1)
    \/ \E r \in Racers : release(r)
    \/ resume
    \/ Tick

RaceSpec == Init /\ [][RaceNext]_vars

\* Two passes of the service overlap: a timer tick launches a pass while an
\* earlier pass is still running, and within a pass fs.unlinkSync may
\* throw.  The uploads, anonymous and expiring after one hour, come while
\* nothing else is in flight.
Sweepers == {1, 2}

SweepRaceNext ==
    \/ \E hasFile \in BOOLEAN : Quiescent /\ upload(1, NoUser, hasFile, <<1>>)
    \/ uploadSave(1)
    \/ release(1)
    \/ Quiescent /\ start(1)
    \/ resume
    \/ \E p \in Sweepers : timerTick(p)
    \/ \E p \in Sweepers : sweepQuery(p)
    \/ \E p \in Sweepers : sweepUnlink(p)
    \/ \E p \in Sweepers : sweepUnlinkFails(p)
    \/ \E p \in Sweepers : sweepDelete(p)
    \/ \E p \in Sweepers : sweepStats(p)
    \/ Tick

SweepRaceSpec == Init /\ [][SweepRaceNext]_vars

\* The service alone with the timer that drives it: passes follow one another
\* in one slot, fs.unlinkSync may throw and the query or findByIdAndDelete may
\* reject.  The uploads, anonymous and expiring after one hour, come while
\* nothing else is in flight.
LiveNext ==
    \/ \E hasFile \in BOOLEAN : Quiescent /\ upload(1, NoUser, hasFile, <<1>>)
    \/ uploadSave(1)
    \/ release(1)
    \/ Quiescent /\ start(1)
    \/ Quiescent /\ stop
    \/ resume
    \/ timerTick(1)
    \/ sweepQuery(1)
    \/ sweepQueryFails(1)
    \/ sweepUnlink(1)
    \/ sweepUnlinkFails(1)
    \/ sweepDelete(1)
    \/ sweepDeleteFails(1)
    \/ sweepStats(1)
    \/ Tick

\* setInterval keeps firing while the timer is armed and every await of a
\* pass settles; an operation on the store or on the disk that is tried again
\* and again does not fail every time
LiveFairness ==
    /\ WF_vars(timerTick(1))
    /\ WF_vars(sweepQuery(1) \/ sweepQueryFails(1))
    /\ WF_vars(sweepUnlink(1) \/ sweepUnlinkFails(1))
    /\ WF_vars(sweepDelete(1) \/ sweepDeleteFails(1))
    /\ WF_vars(sweepStats(1))
    /\ SF_vars(sweepQuery(1))
    /\ \A i \in Ids : SF_vars(sweepUnlink(1) /\ pass'[1].current = i)
    /\ \A i \in Ids : SF_vars(sweepDelete(1) /\ pass[1].current = i)

LiveSpec == Init /\ [][LiveNext]_vars /\ LiveFairness

\* One request at a time, uploads by ownerB and anonymous ones that expire
\* after one hour, in an environment in which a save of the document, an
\* update of the user's statistics and fs.unlinkSync may fail.
SideEffectNext ==
    \/ \E hasFile \in BOOLEAN, u \in {NoUser, "ownerB"} :
          Quiescent /\ upload(1, u, hasFile, <<1>>)
    \/ \E id \in Ids : Quiescent /\ getFileInfo(1, id)
    \/ \E id \in Ids : Quiescent /\ download(1, id)
    \/ uploadSave(1)
    \/ uploadSaveFails(1)
    \/ uploadSaveFailsKeepsBlob(1)
    \/ uploadStats(1)
    \/ uploadStatsFails(1)
    \/ downloadSave(1)
    \/ downloadStats(1)
    \/ downloadStatsFails(1)
    \/ release(1)
    \/ Tick

SideEffectSpec == Init /\ [][SideEffectNext]_vars

\* Uploads alone, one at a time, by ownerB and anonymous: the save of the
\* document, the update of the statistics and fs.unlinkSync may fail, and the
\* process may die at an await.
UploadFaultNext ==
    \/ \E hasFile \in BOOLEAN, u \in {NoUser, "ownerB"} :
          Quiescent /\ upload(1, u, hasFile, <<1>>)
    \/ uploadSave(1)
    \/ uploadSaveFails(1)
    \/ uploadSaveFailsKeepsBlob(1)
    \/ uploadStats(1)
    \/ uploadStatsFails(1)
    \/ release(1)
    \/ Tick
    \/ Crash

UploadFaultSpec == Init /\ [][UploadFaultNext]_vars

\* The service is started and stopped at any moment, also while a pass is
\* running; passes run in two slots.  The uploads, anonymous and expiring
\* after one hour, come while nothing else is in flight.
SchedulerNext ==
    \/ \E hasFile \in BOOLEAN : Quiescent /\ upload(1, NoUser, hasFile, <<1>>)
    \/ uploadSave(1)
    \/ release(1)
    \/ \E p \in Sweepers : start(p)
    \/ stop
    \/ resume
    \/ \E p \in Sweepers : timerTick(p)
    \/ \E p \in Sweepers : sweepQuery(p)
    \/ \E p \in Sweepers : sweepUnlink(p)
    \/ \E p \in Sweepers : sweepDelete(p)
    \/ \E p \in Sweepers : sweepStats(p)
    \/ Tick

SchedulerSpec == Init /\ [][SchedulerNext]_vars

\* cleanupOrphanedFiles() is called at any moment, also while an upload is
\* between the write of its blob and the save of its document; uploads are
\* anonymous, fs.unlinkSync may throw in the pass, and the process may die at
\* an await.
ReconcileNext ==
    \/ \E hasFile \in BOOLEAN : upload(1, NoUser, hasFile, <<1>>)
    \/ uploadSave(1)
    \/ release(1)
    \/ cleanupOrphanedFiles
    \/ reconcile
    \/ reconcileSomeFail
    \/ reconcileReturn
    \/ Crash

ReconcileSpec == Init /\ [][ReconcileNext]_vars

\* ================================================================ claims
\* what the claims read off a response
NotFoundOutcome(resp) == resp.status = 404 /\ resp.error = "File not found"
GoneOutcome(resp) == resp.status = 410
OkOutcome(resp) == resp.status \in {200, 201}
Sent(op) == req[1].op = op /\ req[1].pc = "sent"
SentNext(op) == req'[1].op = op /\ req'[1].pc = "sent"
\* the records of a collection that a clock reading t finds past their expiry
ExpiredAt(fs, t) == {i \in DOMAIN fs : fs[i] # NoFile /\ t > fs[i].expiryTime}
BlobsOf(fs, S) == {fs[i].filePath : i \in S}

\* C1: a sweep pass over a store holding N records with now > expiryTime and
\* M records with now <= expiryTime ends with exactly the N expired records
\* and their blobs removed and the M others and their blobs as they were,
\* whatever the order in which the expired records are taken; a pass that
\* finds nothing expired removes nothing.
C1_SweepRemovesExactlyExpired ==
    [][/\ (pass[1].pc = "deleting" /\ pass'[1].pc = "stats") =>
            LET before == pass[1].before
                expired == ExpiredAt(before.files, pass[1].cutoff)
            IN /\ files' = [i \in Ids |-> IF i \in expired THEN NoFile ELSE before.files[i]]
               /\ disk' = before.disk \ BlobsOf(before.files, expired)
               /\ pass'[1].deletedCount = Cardinality(expired)
       /\ (sweepQuery(1) /\ pass'[1].pc = "idle") =>
            /\ ExpiredAt(files, pass[1].cutoff) = {}
            /\ files' = files /\ disk' = disk]_vars

\* a pass has just ended having removed an expired record and kept another
C1_Witness ==
    /\ pass[1].pc = "stats"
    /\ pass[1].deletedCount >= 1
    /\ \E i \in Ids : /\ pass[1].before.files[i] # NoFile
                      /\ pass[1].cutoff <= pass[1].before.files[i].expiryTime
                      /\ files[i] = pass[1].before.files[i]
                      /\ files[i].filePath \in disk
    /\ \E i \in Ids : /\ pass[1].before.files[i] # NoFile
                      /\ pass[1].cutoff > pass[1].before.files[i].expiryTime
                      /\ pass[1].before.files[i].filePath \in pass[1].before.disk
                      /\ files[i] = NoFile

\* C2: for a record uploaded with expiryHours = 1, getFileInfo succeeds while
\* the clock has not passed the expiry (so immediately after the upload); 61
\* minutes after the upload it answers Gone (expired) although the record is
\* still stored; a sweep pass run then deletes the record; and an id whose
\* record is gone answers NotFound and never gets a record again.
OneHour(file) == file # NoFile /\ file.expiryTime = file.uploadTime + HourMs
C2_OneHourLifecycle ==
    [][/\ \A id \in Ids :
            (getFileInfo(1, id) /\ OneHour(files[id])) =>
                /\ (now <= files[id].expiryTime /\ files[id].downloadCount < files[id].maxDownloads)
                       => OkOutcome(req'[1].resp)
                /\ now >= files[id].uploadTime + 61 * MinuteMs
                       => /\ GoneOutcome(req'[1].resp)
                          /\ req'[1].resp.error = "File expired"
                          /\ files'[id] = files[id]
       /\ \A id \in Ids :
            (/\ pass[1].pc = "deleting" /\ pass'[1].pc = "stats"
             /\ OneHour(pass[1].before.files[id])
             /\ pass[1].cutoff >= pass[1].before.files[id].uploadTime + 61 * MinuteMs)
            => /\ files'[id] = NoFile
               /\ ExpiredAt(pass[1].before.files, pass[1].cutoff) = {id}
                     => /\ pass'[1].deletedCount = 1
                        /\ \A i \in Ids \ {id} : files'[i] = pass[1].before.files[i]
       /\ \A id \in Ids :
            (getFileInfo(1, id) /\ files[id] = NoFile) => NotFoundOutcome(req'[1].resp)
       /\ \A id \in Ids :
            (id <= uploads /\ files[id] = NoFile /\ files'[id] # NoFile)
            => req[1].op = "upload" /\ req[1].pc = "saving" /\ req[1].id = id]_vars

\* 61 minutes after its upload, a pass has just deleted exactly the one-hour record
C2_Witness ==
    /\ pass[1].pc = "stats" /\ pass[1].deletedCount = 1
    /\ \E id \in Ids : /\ OneHour(pass[1].before.files[id])
                       /\ now = pass[1].before.files[id].uploadTime + 61 * MinuteMs
                       /\ files[id] = NoFile

\* C3: sequential downloads of a non-expired record whose blob is stored get
\* through exactly while downloadCount < maxDownloads, each adds exactly one
\* to downloadCount and is answered with success, every later one is answered
\* Gone (limit), and downloadCount never exceeds maxDownloads.
C3_SequentialDownloadLimit ==
    [][/\ \A id \in Ids :
            (/\ download(1, id) /\ files[id] # NoFile
             /\ now <= files[id].expiryTime /\ files[id].filePath \in disk)
            => IF files[id].downloadCount < files[id].maxDownloads
               THEN req'[1].pc = "saving"
               ELSE /\ SentNext("download") /\ GoneOutcome(req'[1].resp)
                    /\ req'[1].resp.error = "Download limit reached"
       /\ downloadSave(1) =>
            /\ files'[req[1].id].downloadCount = files[req[1].id].downloadCount + 1
            /\ req'[1].pc = "sent" => OkOutcome(req'[1].resp)
       /\ downloadStats(1) => OkOutcome(req'[1].resp)
       /\ \A i \in Ids :
            (files[i] # NoFile /\ files'[i] # NoFile
               /\ files'[i].downloadCount # files[i].downloadCount) => downloadSave(1)
       /\ \A i \in Ids :
            files'[i] # NoFile => files'[i].downloadCount <= files'[i].maxDownloads]_vars

\* the record has been downloaded maxDownloads times and one more download is refused
C3_Witness ==
    /\ Sent("download") /\ req[1].resp.error = "Download limit reached"
    /\ files[req[1].id] # NoFile
    /\ files[req[1].id].downloadCount = files[req[1].id].maxDownloads
    /\ Len(files[req[1].id].accessLog) = files[req[1].id].maxDownloads

\* C4: deleteFile requested by ownerA for a record created by ownerB is
\* answered Forbidden and leaves the record and its blob as they were.
C4_DeleteByNonOwnerForbidden ==
    [][\A id \in Ids, u \in Users :
          (/\ deleteFile(1, id, u) /\ files[id] # NoFile
           /\ files[id].createdBy \in Users \ {u})
          => /\ SentNext("delete")
             /\ req'[1].resp.status = 403
             /\ files' = files
             /\ disk' = disk]_vars

\* ownerB's record and its blob are in place after a refused deletion
C4_Witness ==
    /\ Sent("delete") /\ req[1].resp.status = 403
    /\ files[req[1].id] # NoFile
    /\ files[req[1].id].createdBy = "ownerB"
    /\ files[req[1].id].filePath \in disk

\* C5: getFileInfo and downloadFile answer through the same gate in the same
\* order: NotFound when no record has the id, else Gone (expired) when
\* now > expiryTime, else Gone (limit) when downloadCount >= maxDownloads;
\* NotFound and Gone differ; and where the id has no record or its blob is
\* stored, a download is refused exactly when getFileInfo is refused, with
\* the same answer.
ClaimedGate(file, t) ==
    IF file = NoFile THEN "NotFound"
    ELSE IF t > file.expiryTime THEN "Gone: File expired"
    ELSE IF file.downloadCount >= file.maxDownloads THEN "Gone: Download limit reached"
    ELSE "OK"
OutcomeOf(resp) ==
    IF NotFoundOutcome(resp) THEN "NotFound"
    ELSE IF GoneOutcome(resp) THEN "Gone: " \o resp.error
    ELSE IF OkOutcome(resp) THEN "OK"
    ELSE "other"
C5_SameGateForInfoAndDownload ==
    [][/\ \A id \in Ids :
            getFileInfo(1, id) => OutcomeOf(req'[1].resp) = ClaimedGate(files[id], now)
       /\ \A id \in Ids :
            (download(1, id) /\ (files[id] = NoFile \/ files[id].filePath \in disk))
            => IF ClaimedGate(files[id], now) = "OK"
               THEN req'[1].pc = "saving" /\ OkOutcome(infoResponse(files[id], now))
               ELSE /\ SentNext("download")
                    /\ OutcomeOf(req'[1].resp) = ClaimedGate(files[id], now)
                    /\ req'[1].resp = infoResponse(files[id], now)
       /\ \A id \in Ids :
            (getFileInfo(1, id) \/ download(1, id))
            => ~(NotFoundOutcome(req'[1].resp) /\ GoneOutcome(req'[1].resp))]_vars

\* a download of an expired record that has also used up its downloads, blob
\* stored, is answered as expired
C5_Witness ==
    /\ Sent("download") /\ req[1].resp.error = "File expired"
    /\ files[req[1].id] # NoFile
    /\ files[req[1].id].downloadCount >= files[req[1].id].maxDownloads
    /\ files[req[1].id].filePath \in disk

\* C6: a download of a stored, non-expired, under-limit record whose blob has
\* left the disk is answered with status 404 and error 'File not found', as
\* for an id without a record; only the message ('File has been removed from
\* storage') tells the two apart.  Nothing is saved: the record and its
\* downloadCount stay as they were.
DanglingDownload(id) ==
    /\ download(1, id)
    /\ files[id] # NoFile
    /\ now <= files[id].expiryTime
    /\ files[id].downloadCount < files[id].maxDownloads
    /\ files[id].filePath \notin disk
C6_DanglingAnsweredAsNotFound ==
    [][\A id \in Ids :
          DanglingDownload(id)
          => /\ SentNext("download")
             /\ NotFoundOutcome(req'[1].resp)
             /\ req'[1].resp.message = "File has been removed from storage"
             /\ req'[1].resp.message # NotFoundResp.message
             /\ files' = files]_vars

\* the record is stored, its blob is not, and the download was answered
C6_Witness ==
    /\ Sent("download") /\ req[1].resp.message = "File has been removed from storage"
    /\ files[req[1].id] # NoFile
    /\ files[req[1].id].filePath \notin disk
    /\ now <= files[req[1].id].expiryTime
    /\ files[req[1].id].downloadCount < files[req[1].id].maxDownloads

\* C6 as stated: such a download is answered with an outcome distinct from
\* the NotFound of a missing record.
C6_AsStated ==
    [][\A id \in Ids :
          DanglingDownload(id) => ~NotFoundOutcome(req'[1].resp)]_vars

\* C7: an upload whose expiryHours is given and lies outside 1..168 is
\* refused (400); no record is created and no blob is left on the disk.
C7_InvalidExpiryLeavesNothing ==
    [][\A hasFile \in BOOLEAN, hrs \in ExpiryHoursInputs, u \in Users \cup {NoUser} :
          (/\ upload(1, u, hasFile, hrs)
           /\ hrs # <<>>
           /\ (hrs[1] < 1 \/ hrs[1] > 168))
          => /\ SentNext("upload")
             /\ req'[1].resp.status = 400
             /\ files' = files
             /\ disk' = disk]_vars

\* an upload was refused for its expiryHours; every blob on the disk belongs
\* to a record
C7_Witness ==
    /\ Sent("upload") /\ req[1].resp.status = 400
    /\ req[1].resp.message = "Expiry must be between 1 and 168 hours"
    /\ \A p \in disk : \E i \in Stored : files[i].filePath = p

\* C8: the record of an upload with expiryHours = h has expiryTime exactly h
\* hours after its creation time (24 hours when the field is omitted), and no
\* step changes the expiryTime of a stored record.
ClaimedHours(hrs) == IF hrs = <<>> THEN 24 ELSE hrs[1]
C8_ExpiryIsHoursAfterCreation ==
    [][/\ \A hrs \in ExpiryHoursInputs, u \in Users \cup {NoUser} :
            (upload(1, u, TRUE, hrs) /\ req'[1].pc = "saving")
            => /\ req'[1].file.uploadTime = now
               /\ req'[1].file.expiryTime - req'[1].file.uploadTime
                     = ClaimedHours(hrs) * 60 * 60 * 1000
       /\ uploadSave(1) =>
            /\ files'[req[1].id].expiryTime = req[1].file.expiryTime
            /\ files'[req[1].id].uploadTime = req[1].file.uploadTime
       /\ \A i \in Ids :
            (files[i] # NoFile /\ files'[i] # NoFile)
            => /\ files'[i].expiryTime = files[i].expiryTime
               /\ files'[i].uploadTime = files[i].uploadTime]_vars

\* a record of 168 hours and a record of the default 24 hours, one of them
\* downloaded since
C8_Witness ==
    /\ \E i \in Stored : files[i].expiryTime - files[i].uploadTime = 168 * HourMs
    /\ \E i \in Stored : files[i].expiryTime - files[i].uploadTime = 24 * HourMs
    /\ \E i \in Stored : files[i].downloadCount >= 1

\* C9: reconciliation removes exactly the blobs of the upload directory that
\* no record references: afterwards every blob left is referenced, every
\* referenced blob that was there is still there, and no record has changed.
Unreferenced == {p \in disk : \A i \in Ids : files[i] = NoFile \/ files[i].filePath # p}
C9_ReconcileRemovesExactlyOrphans ==
    [][(rec.pc = "find" /\ rec'.pc = "returned")
          => /\ disk' = disk \ Unreferenced
             /\ files' = files
             /\ rec'.outcome = "returned"
             /\ rec'.orphanedCount = Cardinality(Unreferenced)]_vars

\* reconciliation has removed an orphan and left a referenced blob
C9_Witness ==
    /\ rec.pc = "returned" /\ rec.orphanedCount >= 1
    /\ Cardinality(rec.filesOnDisk) = rec.orphanedCount + Cardinality(disk)
    /\ \E i \in Stored : files[i].filePath \in disk

\* C10: start() on a running service changes nothing (no pass is launched,
\* no second timer is armed) and stop() on an idle service changes nothing;
\* at most one timer is ever armed, the one the service holds.
C10_StartStopIdempotent ==
    [][/\ (start(1) /\ svc.isRunning)
            => UNCHANGED <<svc, timers, pass, files, disk>>
       /\ (stop /\ ~svc.isRunning)
            => UNCHANGED <<svc, timers, pass, files, disk>>
       /\ Cardinality(timers') <= 1
       /\ svc'.isRunning => timers' = {svc'.intervalId}]_vars

\* start() has just returned from a running service
C10_Witness ==
    /\ log = "Cleanup service is already running"
    /\ svc.isRunning
    /\ timers = {svc.intervalId}
    /\ pass[1].pc = "idle"

\* C11: deleting is idempotent.  A delete path that finds the blob of its
\* record already absent does not raise: deleteFile, cleanupFile and the
\* sweep loop go on to remove the record.  A deleteFile for an id whose
\* record is gone answers NotFound (404), not an internal error, and leaves
\* every record and blob as it was.
Dangling(id) == files[id] # NoFile /\ files[id].filePath \notin disk
C11_DeletionIdempotent ==
    [][/\ \A id \in Ids :
            (Dangling(id) /\ (deleteFile(1, id, NoUser) \/ cleanupFile(1, id)))
            => req'[1].pc = "deleting" /\ disk' = disk
       /\ \A id \in Ids :
            (Dangling(id) /\ req[1].pc = "deleting" /\ req[1].id = id /\ req'[1].pc = "sent"
               /\ files'[id] # NoFile)
            => req'[1].resp \in {DeleteFailedResp, CleanupThrew}
                  /\ (deleteDoneFails(1) \/ cleanupFileDoneFails(1))
       /\ \A id \in Ids :
            (Dangling(id) /\ pass[1].pc = "loop" /\ pass'[1].current = id)
            => pass'[1].pc = "deleting" /\ pass'[1].errorCount = pass[1].errorCount
       /\ \A id \in Ids, u \in Users \cup {NoUser} :
            (deleteFile(1, id, u) /\ files[id] = NoFile)
            => /\ SentNext("delete")
               /\ NotFoundOutcome(req'[1].resp)
               /\ files' = files /\ disk' = disk]_vars

\* the record of an uploaded id is gone with its blob and a further
\* deleteFile for the id was answered 404
C11_Witness ==
    /\ Sent("delete") /\ req[1].resp.status = 404
    /\ req[1].id <= uploads
    /\ files[req[1].id] = NoFile
    /\ join(UploadDir, req[1].id) \notin disk

\* C13: a deletion that raises inside a sweep pass (unlinkSync throws or
\* findByIdAndDelete rejects) does not end the pass: the record that failed
\* stays in the store, every other selected record is still to be attempted,
\* at the end of the pass exactly as many selected records are left as
\* attempts have raised, and the pass returns without raising.
C13_SweepToleratesFailures ==
    [][/\ (pass[1].pc \in {"loop", "deleting"}
              /\ pass'[1].errorCount # pass[1].errorCount)
            => /\ pass'[1].errorCount = pass[1].errorCount + 1
               /\ files' = files
               /\ pass'[1].pc = (IF pass'[1].todo = {} THEN "stats" ELSE "loop")
               /\ Cardinality(pass'[1].todo) = Cardinality(pass[1].todo) - 1
               /\ pass'[1].todo \subseteq pass[1].todo
       /\ (pass[1].pc \in {"loop", "deleting"} /\ pass'[1].pc = "stats")
            => /\ pass'[1].todo = {}
               /\ Cardinality({f \in pass[1].expiredFiles : files'[f.id] # NoFile})
                     = pass'[1].errorCount
       /\ pass'[1].pc \in {"idle", "query", "loop", "deleting", "stats"}]_vars

\* a pass has ended in which one deletion raised and another record was removed
C13_Witness ==
    /\ pass[1].pc = "stats"
    /\ pass[1].errorCount >= 1
    /\ pass[1].deletedCount >= 1
    /\ \E f \in pass[1].expiredFiles : files[f.id] # NoFile
    /\ \E f \in pass[1].expiredFiles : files[f.id] = NoFile

\* C15: in deleteFile, the sweep loop and cleanupFile a record leaves the
\* store only when its blob is absent from the disk, and a step in which
\* removing the blob raises removes no record: no deletion leaves behind the
\* blob of the record it removed.
C15_BlobGoesBeforeRecord ==
    [][/\ \A i \in Ids :
            (files[i] # NoFile /\ files'[i] = NoFile)
            => /\ files[i].filePath \notin disk
               /\ files[i].filePath \notin disk'
       /\ \A id \in Ids :
            (deleteUnlinkFails(1, id, NoUser) \/ cleanupFileUnlinkFails(1, id))
            => /\ files' = files /\ disk' = disk
               /\ req'[1].pc = "sent"
       /\ (pass[1].pc = "loop" /\ pass'[1].errorCount # pass[1].errorCount)
            => files' = files /\ disk' = disk]_vars

\* cleanupFile has removed a record; the blob went with it
C15_Witness ==
    /\ Sent("cleanupFile") /\ req[1].resp = CleanupDone
    /\ files[req[1].id] = NoFile
    /\ join(UploadDir, req[1].id) \notin disk
    /\ req[1].id <= uploads

\* C12: expiry is monotonic in time.  A stored record that isFileExpired
\* holds of stays one of which it holds at every later clock reading; an id
\* whose record is gone gets a record only from the upload that created the
\* id; and getFileInfo and downloadFile answer Gone for an expired record.
\* Hence once a call for an id was refused as expired, every later call for
\* the id is answered Gone or NotFound.
C12_ExpiryMonotonic ==
    [][/\ now' >= now
       /\ \A i \in Ids :
            (files[i] # NoFile /\ isFileExpired(files[i], now) /\ files'[i] # NoFile)
            => isFileExpired(files'[i], now')
       /\ \A i \in Ids :
            (i <= uploads /\ files[i] = NoFile /\ files'[i] # NoFile)
            => req[1].op = "upload" /\ req[1].pc = "saving" /\ req[1].id = i
       /\ \A id \in Ids :
            ((getFileInfo(1, id) \/ download(1, id))
               /\ files[id] # NoFile /\ now > files[id].expiryTime)
            => /\ req'[1].pc = "sent"
               /\ GoneOutcome(req'[1].resp)
       /\ \A id \in Ids :
            ((getFileInfo(1, id) \/ download(1, id)) /\ files[id] = NoFile)
            => req'[1].pc = "sent" /\ NotFoundOutcome(req'[1].resp)]_vars

\* more than an hour after its expiry a record is still stored and a call for
\* it is still refused as expired
C12_Witness ==
    /\ req[1].op \in {"info", "download"} /\ req[1].pc = "sent"
    /\ req[1].resp.error = "File expired"
    /\ files[req[1].id] # NoFile
    /\ now > files[req[1].id].expiryTime + HourMs

\* C14 as stated: the increment and the access-log append are atomic per
\* record, so that under any interleaving of downloads the downloadCount of
\* a stored record equals the length of its access log.
C14_CountEqualsLogLength ==
    \A i \in Ids :
        files[i] # NoFile => files[i].downloadCount = Len(files[i].accessLog)

C20_CountNeverDecreases ==
    [][\A i \in Ids :
          (files[i] # NoFile /\ files'[i] # NoFile)
          => files'[i].downloadCount >= files[i].downloadCount]_vars

\* C17: at the end of every sweep pass deletedCount + errorCount equals the
\* number of records the pass selected as expired: every turn of the loop
\* adds one to exactly one of the two counters.  deletedCount counts the
\* turns that did not raise, whether or not the record was still stored.
InLoop(p) == pass[p].pc \in {"loop", "deleting"}
Examined(p) == Cardinality(pass[p].expiredFiles)
C17_CountsAddUp ==
    [][\A p \in Sweepers :
          /\ (InLoop(p) /\ pass'[p].pc = "stats")
                => pass'[p].deletedCount + pass'[p].errorCount = Examined(p)
          /\ (InLoop(p) /\ pass'[p].pc \in {"loop", "stats"})
                => /\ pass'[p].deletedCount + pass'[p].errorCount + Cardinality(pass'[p].todo)
                         = Examined(p)
                   /\ pass'[p].expiredFiles = pass[p].expiredFiles
          /\ (pass[p].pc = "deleting" /\ pass'[p].pc # "deleting")
                => /\ pass'[p].deletedCount = pass[p].deletedCount + 1
                   /\ pass'[p].errorCount = pass[p].errorCount]_vars

\* two overlapping passes have ended, each having counted the same single
\* record as deleted
C17_Witness ==
    /\ pass[1].pc = "stats" /\ pass[2].pc = "stats"
    /\ pass[1].expiredFiles = pass[2].expiredFiles
    /\ Cardinality(pass[1].expiredFiles) = 1
    /\ pass[1].deletedCount = 1 /\ pass[2].deletedCount = 1

\* C17 as stated: the counts add up and deletedCount is the number of
\* records that this pass itself removed from the store.
C17_AsStated ==
    [][\A p \in Sweepers :
          /\ (InLoop(p) /\ pass'[p].pc = "stats")
                => pass'[p].deletedCount + pass'[p].errorCount = Examined(p)
          /\ (InLoop(p) /\ pass'[p].deletedCount # pass[p].deletedCount)
                => /\ files[pass[p].current] # NoFile
                   /\ files'[pass[p].current] = NoFile]_vars

\* C18: when two sweep passes overlap, neither counts an error because the
\* other has already removed a blob or a record (an error is counted only
\* for an unlinkSync that raised on a blob that is there); a pass that ends
\* without an error leaves every record it selected and its blob gone; and
\* only records past their expiry, and their blobs, are removed.
C18_OverlappingPassesIdempotent ==
    [][/\ \A p \in Sweepers :
            (pass'[p].errorCount # pass[p].errorCount /\ pass'[p].pc # "idle")
            => /\ pass[p].pc = "loop"
               /\ \E f \in pass[p].todo \ pass'[p].todo : f.filePath \in disk
       /\ \A p \in Sweepers :
            (InLoop(p) /\ pass'[p].pc = "stats" /\ pass'[p].errorCount = 0)
            => \A f \in pass[p].expiredFiles :
                  files'[f.id] = NoFile /\ f.filePath \notin disk'
       /\ \A i \in Ids :
            (files[i] # NoFile /\ files'[i] = NoFile)
            => now > files[i].expiryTime
       /\ \A i \in Ids :
            (files[i] # NoFile /\ files[i].filePath \in disk /\ files[i].filePath \notin disk')
            => now > files[i].expiryTime
       /\ \A i \in Ids :
            (files[i] # NoFile /\ files'[i] # NoFile) => files'[i] = files[i]]_vars

\* two passes that selected the same expired record have both ended without
\* an error; the record and its blob are gone, a record that has not expired
\* and its blob are in place
C18_Witness ==
    /\ pass[1].pc = "stats" /\ pass[2].pc = "stats"
    /\ pass[1].expiredFiles = pass[2].expiredFiles
    /\ pass[1].expiredFiles # {}
    /\ pass[1].errorCount = 0 /\ pass[2].errorCount = 0
    /\ \A f \in pass[1].expiredFiles : files[f.id] = NoFile /\ f.filePath \notin disk
    /\ \E i \in Ids : /\ files[i] # NoFile
                      /\ now <= files[i].expiryTime
                      /\ files[i].filePath \in disk

\* C16: while the service is running, every stored record whose expiry has
\* passed is in the end removed together with its blob, given that no
\* deletion fails every time.  A record whose deletion failed leaves the
\* pass's work list (it is tried once in that pass), stays in the store as
\* an expired record, and every pass the timer launches selects all expired
\* records again.  The blob of the i-th upload is the i-th name multer gave.
BlobOf(i) == join(UploadDir, i)
C16_ExpiredEventuallyRemoved ==
    /\ [][/\ (InLoop(1) /\ pass'[1].pc # "idle") => pass'[1].todo \subseteq pass[1].todo
          /\ (InLoop(1) /\ pass'[1].errorCount = pass[1].errorCount + 1)
                => \E f \in pass[1].todo :
                      /\ pass'[1].todo = pass[1].todo \ {f}
                      /\ files[f.id] # NoFile
                      /\ files'[f.id] = files[f.id]
                      /\ f.id \in findExpiredFiles(now)
          /\ timerTick(1) => (pass'[1].pc = "query" /\ pass'[1].cutoff = now)
          /\ (pass[1].pc = "query" /\ pass'[1].pc = "loop")
                => {f.id : f \in pass'[1].todo} = findExpiredFiles(pass[1].cutoff)]_vars
    /\ [](\A i \in Stored : files[i].filePath = BlobOf(i))
    /\ \A i \in Ids :
          [](  (svc.isRunning /\ files[i] # NoFile /\ isFileExpired(files[i], now))
            => <>(~svc.isRunning \/ (files[i] = NoFile /\ BlobOf(i) \notin disk)))

\* a pass of the running service has selected again a record that an earlier
\* pass failed on: its blob is unlinked, the record was kept
C16_Witness ==
    /\ svc.isRunning
    /\ pass[1].pc = "loop"
    /\ \E f \in pass[1].todo :
          /\ files[f.id] # NoFile
          /\ f.filePath \notin disk
          /\ isFileExpired(files[f.id], now)

\* C21: a download of an owned record whose save went through is served even
\* when the update of the owner's download statistics fails or the owner is
\* not found: the answer is the stream, the record keeps the incremented
\* counter and the new access-log entry, the owner's statistics are unchanged.
C21_StatsFailureKeepsDownload ==
    [][/\ (req[1].op = "download" /\ req[1].pc = "saving" /\ req'[1].pc = "stats")
             => /\ files'[req[1].id].downloadCount = files[req[1].id].downloadCount + 1
                /\ Len(files'[req[1].id].accessLog) = Len(files[req[1].id].accessLog) + 1
       /\ downloadStatsFails(1)
             => /\ OkOutcome(req'[1].resp)
                /\ files' = files /\ disk' = disk /\ stats' = stats
                /\ files[req[1].id].downloadCount = req[1].file.downloadCount
                /\ Len(files[req[1].id].accessLog) = Len(req[1].file.accessLog) + 1]_vars

\* a download of ownerB's record has been served and recorded although none
\* of its owner's downloads was counted
C21_Witness ==
    /\ Sent("download") /\ OkOutcome(req[1].resp)
    /\ files[req[1].id] # NoFile
    /\ files[req[1].id].createdBy = "ownerB"
    /\ files[req[1].id].downloadCount >= 1
    /\ Len(files[req[1].id].accessLog) = files[req[1].id].downloadCount
    /\ stats["ownerB"].totalDownloads = 0

\* C22: an authenticated upload whose blob is written and whose record is
\* saved succeeds even when the update of the uploader's statistics fails:
\* the answer is a success, the record and its blob both remain, and no
\* stored record is left without its blob.
C22_StatsFailureKeepsUpload ==
    [][uploadStatsFails(1)
          => /\ OkOutcome(req'[1].resp)
             /\ files'[req[1].id] # NoFile
             /\ files'[req[1].id].filePath \in disk'
             /\ \A i \in Ids : ~Dangling(i)']_vars

\* C30: when the save of an upload's document fails, the upload is answered
\* with a failure and no record is stored; the blob written for it is
\* removed, unless the unlink of the clean-up throws as well, in which case
\* the blob stays.  A blob without a record that no upload in flight belongs
\* to comes about only that way or when the process dies between the write of
\* the blob and the save.
BlobsInFlight == {req[r].file.filePath : r \in {q \in Reqs : req[q].op = "upload" /\ req[q].pc = "saving"}}
Orphans == Unreferenced \ BlobsInFlight
SaveFailed == req[1].op = "upload" /\ req[1].pc = "saving" /\ req'[1] # req[1] /\ files' = files
C26_InfoIgnoresBlob ==
    [][\A id \in Ids :
          /\ (getFileInfo(1, id) /\ Dangling(id))
                => /\ OutcomeOf(req'[1].resp) = ClaimedGate(files[id], now)
                   /\ files' = files /\ disk' = disk
          /\ (download(1, id) /\ Dangling(id) /\ ClaimedGate(files[id], now) = "OK")
                => /\ SentNext("download")
                   /\ req'[1].resp = RemovedResp]_vars

\* getFileInfo has answered with success for a record whose blob is not on
\* the disk
C26_Witness ==
    /\ Sent("info") /\ OkOutcome(req[1].resp)
    /\ Dangling(req[1].id)

\* C26 as stated: getFileInfo never answers with success for a record whose
\* blob is absent.
C26_AsStated ==
    [][\A id \in Ids :
          (getFileInfo(1, id) /\ Dangling(id)) => ~OkOutcome(req'[1].resp)]_vars

\* C29: a download that is refused (no such record, record expired, limit
\* reached, blob missing) is answered at once and changes nothing: the
\* records with their counters, access logs and expired flags, the owners'
\* statistics and the disk are as before the request, and stay so until the
\* answer has left.
Refused(id) == ClaimedGate(files[id], now) # "OK" \/ Dangling(id)
C29_RefusedDownloadChangesNothing ==
    [][/\ \A id \in Ids :
            (download(1, id) /\ Refused(id))
            => /\ SentNext("download")
               /\ req'[1].resp \in {NotFoundResp, ExpiredResp, LimitResp, RemovedResp}
               /\ files' = files /\ stats' = stats /\ disk' = disk
       /\ (Sent("download") /\ ~OkOutcome(req[1].resp) /\ req' # req)
            => /\ req'[1] = IdleReq
               /\ files' = files /\ stats' = stats /\ disk' = disk
       /\ \A id \in Ids :
            (download(1, id) /\ ~Refused(id)) => req'[1].pc = "saving"]_vars

\* a download of ownerB's record was refused because the limit is reached:
\* counter, access log and the owner's statistics stand where the served
\* downloads left them
C29_Witness ==
    /\ Sent("download") /\ req[1].resp = LimitResp
    /\ files[req[1].id] # NoFile
    /\ files[req[1].id].createdBy = "ownerB"
    /\ files[req[1].id].downloadCount = files[req[1].id].maxDownloads
    /\ Len(files[req[1].id].accessLog) = files[req[1].id].maxDownloads
    /\ stats["ownerB"].totalDownloads = files[req[1].id].maxDownloads
    /\ files[req[1].id].filePath \in disk

\* C25: deleteFile on a stored record goes by ownership alone: it goes
\* through (the blob is unlinked, the record is then removed) when the record
\* has no owner or the requester is its owner, and otherwise, a request
\* without a user included, it is answered Forbidden with record and blob
\* untouched.
C25_DeleteGoesByOwnership ==
    [][\A id \in Ids, u \in Users \cup {NoUser} :
          (deleteFile(1, id, u) /\ files[id] # NoFile)
          => IF files[id].createdBy = NoUser \/ files[id].createdBy = u
             THEN /\ req'[1].pc = "deleting"
                  /\ files[id].filePath \notin disk'
             ELSE /\ SentNext("delete")
                  /\ req'[1].resp = ForbiddenResp
                  /\ files' = files /\ disk' = disk]_vars

\* C27: a stored record whose expired flag is set is past its expiry: the
\* flag changes only in a save, to (time of the save > expiryTime), and
\* expiryTime never changes, so the query of a sweep (flag set or
\* expiryTime < now) selects only records that are expired.
C27_FlagImpliesExpired ==
    /\ [](\A i \in Stored : files[i].isExpired => now > files[i].expiryTime)
    /\ [][\A i \in Ids :
            (files[i] # NoFile /\ files'[i] # NoFile)
            => /\ files'[i].expiryTime = files[i].expiryTime
               /\ files'[i].isExpired # files[i].isExpired
                     => /\ req[1].pc = "saving" /\ req[1].id = i
                        /\ files'[i].isExpired = (now > files[i].expiryTime)]_vars
    /\ [][(pass[1].pc = "query" /\ pass'[1].pc = "loop")
            => \A f \in pass'[1].todo :
                  files[f.id] # NoFile /\ now > files[f.id].expiryTime]_vars

\* a sweep has selected a record whose expired flag was set by the save of a
\* download that passed the gate before the expiry
C27_Witness ==
    /\ pass[1].pc = "loop"
    /\ \E f \in pass[1].todo :
          /\ files[f.id] # NoFile
          /\ files[f.id].isExpired
          /\ files[f.id].downloadCount >= 1

\* C28: the interval timer is armed exactly while the service is running
\* (isRunning is true exactly when intervalId is set, and then that timer and
\* no other is armed); a pass begins only in start() of a service that was
\* not running or at a tick of the timer of a running service, so that after
\* stop() no pass begins until start() is called; stop() leaves a pass in
\* flight alone.
C28_TimerArmedIffRunning ==
    /\ [](svc.isRunning <=> svc.intervalId # NoTimer)
    /\ [](timers = IF svc.isRunning THEN {svc.intervalId} ELSE {})
    /\ [][\A p \in Sweepers :
            (pass[p].pc = "idle" /\ pass'[p].pc # "idle")
            => \/ ~svc.isRunning /\ svc'.isRunning /\ start(p)
               \/ svc.isRunning /\ svc'.isRunning /\ timerTick(p)]_vars
    /\ [][(svc.isRunning /\ ~svc'.isRunning)
            => /\ stop
               /\ timers' = {}
               /\ pass' = pass]_vars

\* the service was stopped while a pass was in flight: no timer is armed, the
\* pass goes on
C28_Witness ==
    /\ ~svc.isRunning /\ svc.intervalId = NoTimer /\ timers = {}
    /\ \E p \in Sweepers : pass[p].pc = "loop"

\* C24: in a pass of cleanupOrphanedFiles an unlink that throws is counted
\* and the pass goes on: the other orphans it found are removed, the pass
\* returns, and the deleted and the failed together are the orphans found.
FoundOrphans == {p \in Unreferenced : basename(p) \in rec.filesOnDisk}
C24_OrphanErrorsAreCounted ==
    [][(rec.pc = "find" /\ rec'.pc = "returned")
          => /\ rec'.outcome = "returned"
             /\ rec'.orphanedCount + rec'.errorCount = Cardinality(FoundOrphans)
             /\ disk \ disk' \subseteq FoundOrphans
             /\ Cardinality(disk \ disk') = rec'.orphanedCount
             /\ Cardinality(FoundOrphans \cap disk') = rec'.errorCount
             /\ files' = files]_vars

\* a pass has returned with one orphan removed and one that could not be
\* unlinked
C24_Witness ==
    /\ rec.pc = "returned" /\ rec.outcome = "returned"
    /\ rec.orphanedCount >= 1
    /\ rec.errorCount >= 1
    /\ Cardinality(Unreferenced) >= 1

\* C23: a reconcile pass that runs beside uploads never removes the blob of
\* an upload that goes on to complete: once the pass and the uploads have
\* finished, every stored record has its blob on the disk.
C23_ReconcileSparesUploads ==
    (rec.pc \in {"idle", "returned"} /\ \A r \in Reqs : req[r].pc \in {"idle", "sent"})
        => \A i \in Stored : files[i].filePath \in disk

====
